---------------------------- MODULE Spec2Model ----------------------------
(***************************************************************************)
(* Model of the video tempo normaliser (src/tempo_normalizer_v13.py).      *)
(*                                                                         *)
(* Real numbers are exact rationals <<num, den>> in lowest terms with      *)
(* den > 0, so every comparison and every clamp is decided exactly.        *)
(* Sequences are 1-based: sample i of the code is element i + 1 here.      *)
(***************************************************************************)
EXTENDS Integers, Sequences, FiniteSets, TLC

(***************************************************************************)
(* Rational arithmetic.                                                    *)
(***************************************************************************)
Abs(x) == IF x < 0 THEN -x ELSE x

RECURSIVE GCD(_, _)
GCD(a, b) == IF b = 0 THEN a ELSE GCD(b, a % b)

LCM(a, b) == (a \div GCD(a, b)) * b

Rat(n, d) ==
    LET g == GCD(Abs(n), Abs(d))
        s == IF d < 0 THEN -1 ELSE 1
    IN  <<(s * n) \div g, (s * d) \div g>>

Zero == <<0, 1>>
One  == <<1, 1>>

RAdd(a, b) ==
    LET l == LCM(a[2], b[2])
    IN  Rat(a[1] * (l \div a[2]) + b[1] * (l \div b[2]), l)

RNeg(a) == <<-a[1], a[2]>>

RSub(a, b) == RAdd(a, RNeg(b))

\* cross-reduced product: the factors are cancelled before they are multiplied
RMul(a, b) ==
    LET g1 == GCD(Abs(a[1]), b[2])
        g2 == GCD(Abs(b[1]), a[2])
    IN  IF a[1] = 0 \/ b[1] = 0 THEN Zero
        ELSE Rat((a[1] \div g1) * (b[1] \div g2), (a[2] \div g2) * (b[2] \div g1))

RInv(a) == IF a[1] < 0 THEN <<-a[2], -a[1]>> ELSE <<a[2], a[1]>>

RDiv(a, b) == RMul(a, RInv(b))

\* a < b, decided on the integer parts first and on the remainders after
RECURSIVE RLtPos(_, _, _, _)
RLtPos(an, ad, bn, bd) ==
    LET qa == an \div ad
        qb == bn \div bd
        ra == an % ad
        rb == bn % bd
    IN  IF qa # qb THEN qa < qb
        ELSE IF rb = 0 THEN FALSE
        ELSE IF ra = 0 THEN TRUE
        ELSE RLtPos(bd, rb, ad, ra)

RLt(a, b) == RLtPos(a[1], a[2], b[1], b[2])
RLe(a, b) == ~RLt(b, a)
RGt(a, b) == RLt(b, a)
RGe(a, b) == ~RLt(a, b)

RMin(a, b) == IF RLt(b, a) THEN b ELSE a
RMax(a, b) == IF RLt(a, b) THEN b ELSE a

\* int(x) of Python for x >= 0
Trunc(a) == a[1] \div a[2]

(***************************************************************************)
(* Series helpers (numpy on 1-D arrays).                                   *)
(***************************************************************************)
RECURSIVE DenLCMRange(_, _, _)
\* the common denominator of x[lo..hi], taken by halves
DenLCMRange(x, lo, hi) ==
    IF lo > hi THEN 1
    ELSE IF lo = hi THEN x[lo][2]
    ELSE LCM(DenLCMRange(x, lo, (lo + hi) \div 2),
             DenLCMRange(x, (lo + hi) \div 2 + 1, hi))

DenLCM(x, k) == DenLCMRange(x, 1, k)

\* a series built element by element, held as a tuple
Series(f, n) == SubSeq(f, 1, n)

\* the numerators of x over the common denominator l
Scaled(x, l) == Series([i \in 1..Len(x) |-> x[i][1] * (l \div x[i][2])], Len(x))

RECURSIVE IntSumRange(_, _, _)
\* the sum of xi[lo..hi], taken by halves
IntSumRange(xi, lo, hi) ==
    IF lo > hi THEN 0
    ELSE IF lo = hi THEN xi[lo]
    ELSE IntSumRange(xi, lo, (lo + hi) \div 2)
             + IntSumRange(xi, (lo + hi) \div 2 + 1, hi)

IntSum(xi, k) == IntSumRange(xi, 1, k)

\* np.mean(x[:m]); the mean of no element is nan, which compares false with
\* every number: it is kept as the token "nan"
NaN == "nan"

MeanFirst(x, m) ==
    IF m = 0 THEN NaN
    ELSE LET l == DenLCM(x, m) IN Rat(IntSum(Scaled(SubSeq(x, 1, m), l), m), l * m)

Mean(x) == MeanFirst(x, Len(x))

Ones(n) == Series([i \in 1..n |-> One], n)

(***************************************************************************)
(* scipy.ndimage.gaussian_filter1d(x, sigma), mode 'reflect', truncate 4:  *)
(* a correlation of x with a symmetric normalised kernel of radius         *)
(* int(4 * sigma + 0.5).  The weights exp(-k^2 / (2 sigma^2)) are          *)
(* irrational; they are tabulated here in tenths (eighths for sigma 1/2)   *)
(* of the central weight and normalised by their sum, so the kernel keeps  *)
(* its radius, its symmetry, its monotone fall-off and its unit sum.       *)
(***************************************************************************)
Radius(sigma) == Trunc(RAdd(RMul(<<4, 1>>, sigma), <<1, 2>>))

KernelWeights(sigma) ==
    IF sigma = <<10, 1>> THEN
        <<10, 10, 10, 10, 9, 9, 8, 8, 7, 7, 6, 5, 5, 4, 4, 3, 3, 2, 2, 2, 1,
          1, 1, 1, 1, 0, 0, 0, 0, 0, 0, 0, 0, 0, 0, 0, 0, 0, 0, 0, 0>>
    ELSE IF sigma = <<1, 2>> THEN <<8, 1, 0>>
    ELSE <<1>>

\* index j (0-based, any integer) reflected into 0..n-1: d c b a | a b c d | d c b a
Reflect(j, n) ==
    LET m == j % (2 * n) IN IF m < n THEN m ELSE 2 * n - 1 - m

RECURSIVE TapsRange(_, _, _, _, _)
\* sum over k in lo..hi of w[|k|] * xi[reflect(i + k)], i 0-based, by halves
TapsRange(xi, w, i, lo, hi) ==
    IF lo > hi THEN 0
    ELSE IF lo = hi THEN w[Abs(lo) + 1] * xi[Reflect(i + lo, Len(xi)) + 1]
    ELSE TapsRange(xi, w, i, lo, (lo + hi) \div 2)
             + TapsRange(xi, w, i, (lo + hi) \div 2 + 1, hi)

\* sum over k in -r..hi of w[|k|] * xi[reflect(i + k)], i 0-based
Taps(xi, w, i, hi, r) == TapsRange(xi, w, i, -r, hi)

gaussian_filter1d(x, sigma) ==
    LET n  == Len(x)
        r  == Radius(sigma)
        w  == KernelWeights(sigma)
        sw == w[1] + 2 * IntSum(Tail(w), r)
        l  == DenLCM(x, n)
        xi == Scaled(x, l)
    IN  Series([i \in 1..n |-> Rat(Taps(xi, w, i - 1, r, r), l * sw)], n)

(***************************************************************************)
(* Calibration constants, tempo_normalizer_v13.py lines 30-31.             *)
(***************************************************************************)
MIN_TEMPO_24FPS == <<3, 2>>
REFERENCE_FPS   == <<24, 1>>
Epsilon         == <<1, 1000>>

(***************************************************************************)
(* compute_speed_curve_smart, piece by piece.                              *)
(***************************************************************************)
\* too few samples kept under a bound of nine
InsufficientSamples_Nine(n) == n < 9

\* line 141
InsufficientSamples(n) == n < 10

\* the opening taken over up to a third of the clip
RefFrames_Third(fps, n) ==
    LET a == IF Trunc(fps) > 10 THEN Trunc(fps) ELSE 10
    IN  IF a < n \div 3 THEN a ELSE n \div 3

\* lines 149-150
RefFrames(fps, n) ==
    LET a == IF Trunc(fps) > 10 THEN Trunc(fps) ELSE 10
    IN  IF a < n \div 4 THEN a ELSE n \div 4

\* the floor growing with the frame rate instead of shrinking
MinAcceptable_Proportional(fps) == RMul(MIN_TEMPO_24FPS, RDiv(fps, REFERENCE_FPS))

\* line 155
MinAcceptable(fps) == RMul(MIN_TEMPO_24FPS, RDiv(REFERENCE_FPS, fps))

\* the 80% boundary that process_video prints (line 479), in the planner's place
BorderlineThreshold_Report(minacc) == RMul(minacc, Rat(8, 10))

\* line 163
BorderlineThreshold(minacc) == RMul(minacc, Rat(85, 100))

\* the boost with the slope 0.4 / 0.1
Boost_Steep(braw, minacc) ==
    RAdd(One, RMul(RSub(One, RDiv(braw, minacc)), RDiv(Rat(4, 10), Rat(1, 10))))

\* lines 172, 177: 0.4 / 0.15 = 8/3
Boost(braw, minacc) ==
    RAdd(One, RMul(RSub(One, RDiv(braw, minacc)), RDiv(Rat(4, 10), Rat(15, 100))))

\* the Slow zone without its 1.2 * min_acceptable floor
ReferenceTempo_NoFloor(z, braw, bsub, minacc, nf) ==
    IF z = "Fast" THEN bsub
    ELSE IF z = "Borderline" THEN
        IF RLt(nf, Rat(95, 100))
        THEN RMul(bsub, RMin(Boost(braw, minacc), Rat(14, 10)))
        ELSE RMul(bsub, Rat(105, 100))
    ELSE RMul(bsub, Rat(22, 10))

\* the Fast zone referred to the raw opening instead of the subject opening
ReferenceTempo_FastRaw(z, braw, bsub, minacc, nf) ==
    IF z = "Fast" THEN braw
    ELSE IF z = "Borderline" THEN
        IF RLt(nf, Rat(95, 100))
        THEN RMul(bsub, RMin(Boost(braw, minacc), Rat(14, 10)))
        ELSE RMul(bsub, Rat(105, 100))
    ELSE RMax(RMul(bsub, Rat(22, 10)), RMul(minacc, Rat(12, 10)))

\* lines 167, 178, 183, 189-190
ReferenceTempo(z, braw, bsub, minacc, nf) ==
    IF z = "Fast" THEN bsub
    ELSE IF z = "Borderline" THEN
        IF RLt(nf, Rat(95, 100))
        THEN RMul(bsub, RMin(Boost(braw, minacc), Rat(14, 10)))
        ELSE RMul(bsub, Rat(105, 100))
    ELSE RMax(RMul(bsub, Rat(22, 10)), RMul(minacc, Rat(12, 10)))

\* lines 168, 179-180, 184, 191
CorrectionStrength(z, braw, minacc, nf) ==
    IF z = "Fast" THEN <<1, 2>>
    ELSE IF z = "Borderline" THEN
        IF RLt(nf, Rat(95, 100))
        THEN RMin(RAdd(<<3, 10>>,
                       RMul(RSub(One, RDiv(braw, minacc)), RDiv(Rat(4, 10), Rat(15, 100)))),
                  <<7, 10>>)
        ELSE <<3, 10>>
    ELSE Rat(95, 100)

\* the guard set off by every tempo below 1.0
DegenerateTempo_BelowOne(ref) == RLt(ref, One)

\* line 194
DegenerateTempo(ref) == RLt(ref, Rat(1, 1000))

\* lines 201-214: one pass of the per-sample loop
SampleSpeed(s, ref, cs, mxu, mxs) ==
    LET ratio  == RDiv(s, ref)
        needed == RDiv(ref, RAdd(s, Epsilon))
        blend  == RAdd(One, RMul(RSub(needed, One), cs))
    IN  IF RLt(ratio, One) THEN RMin(blend, mxu)
        ELSE IF RGt(ratio, One) THEN RMax(blend, mxs)
        ELSE One

\* the ramp taken over a quarter of the clip instead of a fifth
RampFrames_Quarter(fps, n) == IF Trunc(fps) < n \div 4 THEN Trunc(fps) ELSE n \div 4

\* lines 220-223
RampFrames(fps, n) == IF Trunc(fps) < n \div 5 THEN Trunc(fps) ELSE n \div 5

\* the ramp with the blend taken once instead of squared
Ramp_Linear(sp, fps) ==
    LET rf == RampFrames(fps, Len(sp))
    IN  Series([i \in 1..Len(sp) |->
                   IF i - 1 < rf
                   THEN RAdd(One, RMul(RSub(sp[i], One), Rat(i - 1, rf)))
                   ELSE sp[i]], Len(sp))

Ramp(sp, fps) ==
    LET rf == RampFrames(fps, Len(sp))
    IN  Series([i \in 1..Len(sp) |->
                   IF i - 1 < rf
                   THEN LET blend == Rat(i - 1, rf)
                        IN  RAdd(One, RMul(RMul(RSub(sp[i], One), blend), blend))
                   ELSE sp[i]], Len(sp))

(***************************************************************************)
(* compute_motion.  cv2.calcOpticalFlowFarneback is outside the            *)
(* repository: each consecutive frame pair is summarised by the four       *)
(* statistics that compute_motion reads off its flow field:                *)
(*   mean   = np.mean(mag)            median = np.median(mag)              *)
(*   cam    = camera_mag              sub    = np.mean(mag_comp)           *)
(* motion_frames is the parameter `frames`, a frame being known by its     *)
(* position in the clip; flows[i] belongs to frames i - 1 and i.           *)
(***************************************************************************)
\* one sample for every frame, the last one included
PairCount_PerFrame(n) == n

\* line 67: range(len(frames) - 1), empty for fewer than two frames
PairCount(n) == IF n - 1 > 0 THEN n - 1 ELSE 0

\* x < y of Python floats, false when x is nan
FLt(x, y) == x # NaN /\ RLt(x, y)

\* process_video, lines 479-493: the zone named in the STATUS line
StatusOf(braw, minacc) ==
    IF FLt(braw, RMul(minacc, Rat(8, 10))) THEN "SLOW"
    ELSE IF FLt(braw, minacc) THEN "BORDERLINE"
    ELSE "GOOD"

\* x > y of Python floats, false when x is nan
FGt(x, y) == x # NaN /\ RGt(x, y)

\* lines 67-101: the motion array
MotionOf(fl, compensate) ==
    Series([i \in 1..Len(fl) |->
               IF compensate
               THEN RAdd(RMul(fl[i].sub, <<1, 2>>), RMul(fl[i].cam, <<1, 2>>))
               ELSE fl[i].mean], Len(fl))

\* lines 105-110
MeanMedianRatio(avg_mean, avg_median) ==
    IF FGt(avg_median, <<1, 100>>) THEN RDiv(avg_mean, avg_median) ELSE <<5, 1>>

\* the interpolation without the division by the width of the ratio band
NoiseFactorOf_Unscaled(ratio) ==
    IF RGe(ratio, <<3, 1>>) THEN One
    ELSE IF RGe(ratio, <<3, 2>>)
         THEN RAdd(Rat(78, 100), RMul(RSub(ratio, <<3, 2>>), Rat(22, 100)))
    ELSE Rat(78, 100)

\* lines 115-121
NoiseFactorOf(ratio) ==
    IF RGe(ratio, <<3, 1>>) THEN One
    ELSE IF RGe(ratio, <<3, 2>>)
         THEN RAdd(Rat(78, 100),
                   RMul(RSub(ratio, <<3, 2>>), RDiv(Rat(22, 100), <<3, 2>>)))
    ELSE Rat(78, 100)

(***************************************************************************)
(* apply_speed_curve.                                                      *)
(***************************************************************************)
\* lines 234-236: np.insert(np.cumsum(1.0 / speed_curve), 0, 0)
RECURSIVE CumulativeRange(_, _, _, _)
\* the running sums of 1 / sc[lo..hi] on top of c0, taken by halves
CumulativeRange(sc, lo, hi, c0) ==
    IF lo > hi THEN <<>>
    ELSE IF lo = hi THEN <<RAdd(c0, RInv(sc[lo]))>>
    ELSE LET mid  == (lo + hi) \div 2
             left == CumulativeRange(sc, lo, mid, c0)
         IN  left \o CumulativeRange(sc, mid + 1, hi, left[Len(left)])

CumulativeFrom(sc, k, c) == c \o CumulativeRange(sc, k, Len(sc), c[k])

Cumulative(sc) == CumulativeFrom(sc, 1, <<Zero>>)

\* the count taken from the length of the curve instead of the frame count
NOutput_FromCurve(n, sc) ==
    LET a == Trunc(RDiv(<<Len(sc), 1>>, Mean(sc)))
    IN  IF a < n \div 3 THEN n \div 3 ELSE a

\* the count without its floor of a third of the input
NOutput_NoFloor(n, sc) == Trunc(RDiv(<<n, 1>>, Mean(sc)))

\* lines 240-242
NOutput(n, sc) ==
    LET a == Trunc(RDiv(<<n, 1>>, Mean(sc)))
    IN  IF a < n \div 3 THEN n \div 3 ELSE a

\* the sample times running from stop down to 0
Linspace_Descending(stop, num) ==
    Series([i \in 1..num |->
               IF num = 1 THEN Zero
               ELSE IF i = 1 THEN stop
               ELSE RMul(<<num - i, 1>>, RDiv(stop, <<num - 1, 1>>))], num)

\* np.linspace(0, stop, num, endpoint=False)
Linspace_NoEndpoint(stop, num) ==
    Series([i \in 1..num |-> RMul(<<i - 1, 1>>, RDiv(stop, <<num, 1>>))], num)

\* line 244: np.linspace(0, stop, num)
Linspace(stop, num) ==
    Series([i \in 1..num |->
               IF num = 1 THEN Zero
               ELSE IF i = num THEN stop
               ELSE RMul(<<i - 1, 1>>, RDiv(stop, <<num - 1, 1>>))], num)

\* np.searchsorted(c, x, side='left'): the number of entries below x
SearchSorted_Left(c, x) == Cardinality({k \in 1..Len(c) : RLt(c[k], x)})

\* line 248: np.searchsorted(c, x, side='right'): the number of entries <= x
SearchSorted(c, x) == Cardinality({k \in 1..Len(c) : RLe(c[k], x)})

\* line 249: np.clip
Clip(v, lo, hi) == IF v < lo THEN lo ELSE IF v > hi THEN hi ELSE v

\* the frame that follows the sample time instead of the one that precedes it
FrameIndex_Following(c, out_t, n) == Clip(SearchSorted(c, out_t), 0, n - 1)

\* lines 246-250: the 0-based index of the input frame emitted at time out_t
FrameIndex(c, out_t, n) == Clip(SearchSorted(c, out_t) - 1, 0, n - 1)

(***************************************************************************)
(* State.  The planner's parameters and locals carry the names they have   *)
(* in compute_speed_curve_smart; raw_speed is the array `speed` as the     *)
(* per-sample loop leaves it (line 214), smoothed_speed the same array     *)
(* after line 217, speed the array that is returned.  status is the zone   *)
(* named in the STATUS line that process_video prints for the clip once    *)
(* the planner has returned (lines 479-493).                               *)
(***************************************************************************)
VARIABLES pc,
          raw_motion, subject_motion, fps, smoothing,
          max_speedup, max_slowdown, noise_factor,
          smoothed_raw, smoothed_subject,
          beginning_raw, beginning_subject, min_acceptable,
          zone, reference_tempo, correction_strength,
          raw_speed, speed, returned,
          ref_frames, smoothed_speed, ramp_frames, status,
          mpc, motion_frames, flows, compensate_camera, motion, avg_mean,
          avg_median, mm_ratio, noise_out,
          rpc, frames, speed_curve, cumulative, n_output, output_times,
          output_frames,
          bpc, video_files, next_file, attempted, results, errors, summary,
          video_fps, plan_fps, write_fps, comparison, artifacts,
          ppc, skip_interpolation, skip_tempo, skip_hd, video_paths,
          current_task_result, connected, close_calls, retval, calls,
          compared,
          qpc, max_wait_minutes, poll_interval, start_time, now, response,
          poll_result

planIn  == <<raw_motion, subject_motion, fps, smoothing,
             max_speedup, max_slowdown, noise_factor>>
planLoc == <<smoothed_raw, smoothed_subject, beginning_raw, beginning_subject,
             min_acceptable, zone, reference_tempo, correction_strength,
             raw_speed, speed, returned,
             ref_frames, smoothed_speed, ramp_frames, status>>
planVars == <<pc, planIn, planLoc>>

motionVars == <<mpc, motion_frames, flows, compensate_camera, motion, avg_mean,
                avg_median, mm_ratio, noise_out>>

resampleVars == <<rpc, frames, speed_curve, cumulative, n_output, output_times,
                  output_frames>>

batchVars == <<bpc, video_files, next_file, attempted, results, errors, summary,
               video_fps, plan_fps, write_fps, comparison, artifacts>>

pipeVars == <<ppc, skip_interpolation, skip_tempo, skip_hd, video_paths,
              current_task_result, connected, close_calls, retval, calls,
              compared>>

pollVars == <<qpc, max_wait_minutes, poll_interval, start_time, now, response,
              poll_result>>

serviceVars == <<pipeVars, pollVars>>

vars == <<planVars, motionVars, resampleVars, batchVars, serviceVars>>

None == <<>>

(***************************************************************************)
(* Inputs of the planner.                                                  *)
(***************************************************************************)
MaxShortSamples == 3
MinSamples      == 9
MaxSamples      == 11
ScenarioSamples == 99
LongSamples     == 80

Step(n, k, a, b) == Series([i \in 1..n |-> IF i <= k THEN a ELSE b], n)

FpsValues    == {<<24, 1>>, <<60, 1>>}
NtscFps      == <<2997, 125>>
HalfNtscFps  == <<2997, 200>>
Sigmas       == {<<10, 1>>, <<1, 2>>, <<1, 10>>}
NoiseFactors == {One, <<89, 100>>}
MaxSpeedups  == {<<2, 1>>, <<3, 2>>}
MaxSlowdowns == {<<3, 5>>, One}

RawValues     == {<<1, 2>>, <<5, 4>>, <<51, 40>>, <<13, 10>>, <<3, 1>>}
SubjectValues == {Zero, <<1, 2>>, <<3, 1>>}
SteppedValues == {<<499, 1000>>, <<2999, 1000>>}

\* constant series under every kernel, the default one (sigma = 10) included
ConstantInputs ==
    [n : MinSamples..MaxSamples, fps : FpsValues, sigma : Sigmas,
     nf : NoiseFactors, mxu : MaxSpeedups, mxs : MaxSlowdowns,
     ra : {Zero}, rb : RawValues, rk : {0},
     sa : {Zero}, sb : SubjectValues, sk : {0}]

\* stepped series under the narrow kernels, clean footage
SteppedInputs ==
    [n : MinSamples..MaxSamples, fps : FpsValues, sigma : Sigmas \ {<<10, 1>>},
     nf : {One}, mxu : MaxSpeedups, mxs : MaxSlowdowns,
     ra : RawValues, rb : RawValues, rk : {1},
     sa : SteppedValues, sb : SteppedValues, sk : {5}]

\* a stepped subject series over a constant raw series, noisy footage
NoisyInputs ==
    [n : MinSamples..MaxSamples, fps : FpsValues, sigma : Sigmas \ {<<10, 1>>},
     nf : {<<89, 100>>}, mxu : MaxSpeedups, mxs : MaxSlowdowns,
     ra : {Zero}, rb : RawValues \ {<<13, 10>>}, rk : {0},
     sa : SteppedValues, sb : SteppedValues, sk : {5}]

\* a frame rate that is no whole number (23.976), clean footage
NtscInputs ==
    [n : MinSamples..MaxSamples, fps : {NtscFps}, sigma : Sigmas,
     nf : {One}, mxu : MaxSpeedups, mxs : MaxSlowdowns,
     ra : {Zero}, rb : RawValues, rk : {0},
     sa : {Zero}, sb : SubjectValues, sk : {0}]

\* a subject series that dips half a thousandth under its opening level
FineInputs ==
    [n : {MaxSamples}, fps : FpsValues, sigma : {<<1, 10>>},
     nf : {One}, mxu : MaxSpeedups, mxs : MaxSlowdowns,
     ra : {Zero}, rb : {<<1, 2>>, <<3, 1>>}, rk : {0},
     sa : {<<3, 1>>}, sb : {<<5999, 2000>>}, sk : {5}]

\* the constant clips of the spec's scenarios A and B
ScenarioInputs ==
    [n : {ScenarioSamples}, fps : {<<24, 1>>}, sigma : {<<10, 1>>},
     nf : {One}, mxu : {<<2, 1>>}, mxs : {<<3, 5>>},
     ra : {Zero}, rb : {<<1, 2>>, <<3, 1>>}, rk : {0},
     sa : {Zero}, sb : {<<1, 2>>, <<3, 1>>}, sk : {0}]

\* constant footage at 14.985 frames a second, long enough for a whole
\* second to fit into a fifth of the clip
LongInputs ==
    [n : {LongSamples}, fps : {HalfNtscFps}, sigma : {<<10, 1>>},
     nf : {One}, mxu : {<<2, 1>>}, mxs : {<<3, 5>>},
     ra : {Zero}, rb : {<<1, 2>>, <<3, 1>>}, rk : {0},
     sa : {Zero}, sb : {<<1, 2>>, <<3, 1>>}, sk : {0}]

\* clips of a few frames only, the empty series included
ShortInputs ==
    [n : 0..MaxShortSamples, fps : FpsValues, sigma : {<<10, 1>>},
     nf : NoiseFactors, mxu : MaxSpeedups, mxs : MaxSlowdowns,
     ra : {Zero}, rb : RawValues, rk : {0},
     sa : {Zero}, sb : SubjectValues, sk : {0}]

PlannerInputs ==
    ConstantInputs \cup SteppedInputs \cup NoisyInputs \cup NtscInputs
        \cup FineInputs \cup ScenarioInputs \cup LongInputs \cup ShortInputs

PlanInit ==
    /\ pc = "start"
    /\ \E in \in PlannerInputs :
          /\ raw_motion = Step(in.n, in.rk, in.ra, in.rb)
          /\ subject_motion = Step(in.n, in.sk, in.sa, in.sb)
          /\ fps = in.fps
          /\ smoothing = in.sigma
          /\ max_speedup = in.mxu
          /\ max_slowdown = in.mxs
          /\ noise_factor = in.nf
    /\ smoothed_raw = None
    /\ smoothed_subject = None
    /\ beginning_raw = None
    /\ beginning_subject = None
    /\ min_acceptable = None
    /\ zone = "none"
    /\ reference_tempo = None
    /\ correction_strength = None
    /\ raw_speed = None
    /\ speed = None
    /\ returned = "no"
    /\ ref_frames = -1
    /\ smoothed_speed = None
    /\ ramp_frames = -1
    /\ status = "none"

(***************************************************************************)
(* compute_speed_curve_smart.                                              *)
(***************************************************************************)
\* lines 140-142: fewer than 10 samples
ShortReturn ==
    /\ pc = "start"
    /\ InsufficientSamples(Len(raw_motion))
    /\ beginning_raw' = Mean(raw_motion)
    /\ reference_tempo' = Mean(raw_motion)
    /\ smoothed_subject' = raw_motion
    /\ speed' = Ones(Len(raw_motion))
    /\ returned' = "short"
    /\ pc' = "done"
    /\ UNCHANGED <<planIn, smoothed_raw, beginning_subject, min_acceptable,
                   zone, correction_strength, raw_speed,
                   ref_frames, smoothed_speed, ramp_frames>>
    /\ UNCHANGED <<status, motionVars, resampleVars, batchVars, serviceVars>>

\* the smoothing written back into the two series handed in
Measure_InPlace ==
    /\ pc = "start"
    /\ ~InsufficientSamples(Len(raw_motion))
    /\ LET n  == Len(raw_motion)
           sr == gaussian_filter1d(raw_motion, smoothing)
           ss == gaussian_filter1d(subject_motion, smoothing)
           rf == RefFrames(fps, n)
       IN  /\ raw_motion' = sr
           /\ subject_motion' = ss
           /\ smoothed_raw' = sr
           /\ smoothed_subject' = ss
           /\ ref_frames' = rf
           /\ beginning_raw' = MeanFirst(sr, rf)
           /\ beginning_subject' = MeanFirst(ss, rf)
           /\ min_acceptable' = MinAcceptable(fps)
    /\ pc' = "measured"
    /\ UNCHANGED <<fps, smoothing, max_speedup, max_slowdown, noise_factor,
                   zone, reference_tempo, correction_strength,
                   raw_speed, speed, returned, smoothed_speed, ramp_frames>>
    /\ UNCHANGED <<status, motionVars, resampleVars, batchVars, serviceVars>>

\* lines 145-155: smooth both series, measure the opening, scale the floor
Measure ==
    /\ pc = "start"
    /\ ~InsufficientSamples(Len(raw_motion))
    /\ LET n  == Len(raw_motion)
           sr == gaussian_filter1d(raw_motion, smoothing)
           ss == gaussian_filter1d(subject_motion, smoothing)
           rf == RefFrames(fps, n)
       IN  /\ smoothed_raw' = sr
           /\ smoothed_subject' = ss
           /\ ref_frames' = rf
           /\ beginning_raw' = MeanFirst(sr, rf)
           /\ beginning_subject' = MeanFirst(ss, rf)
           /\ min_acceptable' = MinAcceptable(fps)
    /\ pc' = "measured"
    /\ UNCHANGED <<planIn, zone, reference_tempo, correction_strength,
                   raw_speed, speed, returned, smoothed_speed, ramp_frames>>
    /\ UNCHANGED <<status, motionVars, resampleVars, batchVars, serviceVars>>

\* lines 165-192: what each branch of the zone decision assigns
Plan(z) ==
    /\ zone' = z
    /\ reference_tempo' =
          ReferenceTempo(z, beginning_raw, beginning_subject, min_acceptable, noise_factor)
    /\ correction_strength' =
          CorrectionStrength(z, beginning_raw, min_acceptable, noise_factor)
    /\ pc' = "decided"
    /\ UNCHANGED <<planIn, smoothed_raw, smoothed_subject, beginning_raw,
                   beginning_subject, min_acceptable, raw_speed, speed, returned,
                   ref_frames, smoothed_speed, ramp_frames>>
    /\ UNCHANGED <<status, motionVars, resampleVars, batchVars, serviceVars>>

\* line 165: if beginning_raw >= min_acceptable
DecideFast ==
    /\ pc = "measured"
    /\ RGe(beginning_raw, min_acceptable)
    /\ Plan("Fast")

\* line 170: elif beginning_raw >= borderline_threshold
DecideBorderline ==
    /\ pc = "measured"
    /\ ~RGe(beginning_raw, min_acceptable)
    /\ RGe(beginning_raw, BorderlineThreshold(min_acceptable))
    /\ Plan("Borderline")

\* line 186: else
DecideSlow ==
    /\ pc = "measured"
    /\ ~RGe(beginning_raw, min_acceptable)
    /\ ~RGe(beginning_raw, BorderlineThreshold(min_acceptable))
    /\ Plan("Slow")

\* lines 194-195: no measurable motion
DegenerateReturn ==
    /\ pc = "decided"
    /\ DegenerateTempo(reference_tempo)
    /\ speed' = Ones(Len(raw_motion))
    /\ returned' = "degenerate"
    /\ pc' = "done"
    /\ UNCHANGED <<planIn, smoothed_raw, smoothed_subject, beginning_raw,
                   beginning_subject, min_acceptable, zone, reference_tempo,
                   correction_strength, raw_speed,
                   ref_frames, smoothed_speed, ramp_frames>>
    /\ UNCHANGED <<status, motionVars, resampleVars, batchVars, serviceVars>>

\* lines 197-214: the per-sample loop
PerSampleLoop ==
    /\ pc = "decided"
    /\ ~DegenerateTempo(reference_tempo)
    /\ raw_speed' = Series([i \in 1..Len(raw_motion) |->
                               SampleSpeed(smoothed_subject[i], reference_tempo,
                                           correction_strength, max_speedup, max_slowdown)],
                           Len(raw_motion))
    /\ pc' = "clamped"
    /\ UNCHANGED <<planIn, smoothed_raw, smoothed_subject, beginning_raw,
                   beginning_subject, min_acceptable, zone, reference_tempo,
                   correction_strength, speed, returned,
                   ref_frames, smoothed_speed, ramp_frames>>
    /\ UNCHANGED <<status, motionVars, resampleVars, batchVars, serviceVars>>

\* lines 217-225: final smoothing, ramp-in, return
SmoothAndRamp ==
    /\ pc = "clamped"
    /\ LET g == gaussian_filter1d(raw_speed, smoothing)
       IN  /\ smoothed_speed' = g
           /\ ramp_frames' = RampFrames(fps, Len(g))
           /\ speed' = Ramp(g, fps)
    /\ returned' = "curve"
    /\ pc' = "done"
    /\ UNCHANGED <<planIn, smoothed_raw, smoothed_subject, beginning_raw,
                   beginning_subject, min_acceptable, zone, reference_tempo,
                   correction_strength, raw_speed, ref_frames>>
    /\ UNCHANGED <<status, motionVars, resampleVars, batchVars, serviceVars>>

\* process_video, lines 461-493: the STATUS line printed from what the
\* planner returned
ReportStatus ==
    /\ pc = "done"
    /\ status = "none"
    /\ status' = StatusOf(beginning_raw, MinAcceptable(fps))
    /\ UNCHANGED <<pc, planIn, smoothed_raw, smoothed_subject, beginning_raw,
                   beginning_subject, min_acceptable, zone, reference_tempo,
                   correction_strength, raw_speed, speed, returned,
                   ref_frames, smoothed_speed, ramp_frames>>
    /\ UNCHANGED <<motionVars, resampleVars, batchVars, serviceVars>>

\* the planner is not running
PlanIdle ==
    /\ pc = "idle"
    /\ raw_motion = None
    /\ subject_motion = None
    /\ fps = None
    /\ smoothing = None
    /\ max_speedup = None
    /\ max_slowdown = None
    /\ noise_factor = None
    /\ smoothed_raw = None
    /\ smoothed_subject = None
    /\ beginning_raw = None
    /\ beginning_subject = None
    /\ min_acceptable = None
    /\ zone = "none"
    /\ reference_tempo = None
    /\ correction_strength = None
    /\ raw_speed = None
    /\ speed = None
    /\ returned = "no"
    /\ ref_frames = -1
    /\ smoothed_speed = None
    /\ ramp_frames = -1
    /\ status = "none"

(***************************************************************************)
(* compute_motion on its own.                                              *)
(***************************************************************************)
MaxPairs == 2

FlowSummaries ==
    [mean : {One, <<9, 4>>, <<3, 1>>},
     median : {<<1, 100>>, <<1, 2>>, One, <<2, 1>>},
     cam : {Zero, One},
     sub : {<<1, 2>>}]

RECURSIVE SeqsOf(_, _)
\* the sequences of length k over S
SeqsOf(S, k) ==
    IF k = 0 THEN {<<>>}
    ELSE {Append(s, x) : s \in SeqsOf(S, k - 1), x \in S}

MotionInit ==
    /\ mpc = "start"
    /\ \E n \in 0..(MaxPairs + 1) :
          /\ motion_frames = Series([i \in 1..n |-> i - 1], n)
          /\ flows \in SeqsOf(FlowSummaries, PairCount(n))
    /\ compensate_camera \in BOOLEAN
    /\ motion = None
    /\ avg_mean = None
    /\ avg_median = None
    /\ mm_ratio = None
    /\ noise_out = None

MotionIdle ==
    /\ mpc = "idle"
    /\ motion_frames = None
    /\ flows = None
    /\ compensate_camera = FALSE
    /\ motion = None
    /\ avg_mean = None
    /\ avg_median = None
    /\ mm_ratio = None
    /\ noise_out = None

\* lines 62-123
ComputeMotion ==
    /\ mpc = "start"
    /\ LET am == Mean([i \in 1..Len(flows) |-> flows[i].mean])
           ad == Mean([i \in 1..Len(flows) |-> flows[i].median])
           r  == MeanMedianRatio(am, ad)
       IN  /\ motion' = MotionOf(flows, compensate_camera)
           /\ avg_mean' = am
           /\ avg_median' = ad
           /\ mm_ratio' = r
           /\ noise_out' = NoiseFactorOf(r)
    /\ mpc' = "done"
    /\ UNCHANGED <<motion_frames, flows, compensate_camera>>
    /\ UNCHANGED <<planVars, resampleVars, batchVars, serviceVars>>

(***************************************************************************)
(* apply_speed_curve on its own.  A frame is known by its position in the  *)
(* input; the curve has one entry per motion sample, one fewer than the    *)
(* frames (process_video, lines 443-501).                                  *)
(***************************************************************************)
MaxFrames        == 5
MaxUniformFrames == 12
ScenarioFrames   == 90

SpeedValues == {<<3, 5>>, One, <<3, 2>>, <<2, 1>>, <<4, 1>>}

FrameIds(n) == Series([i \in 1..n |-> i - 1], n)

Uniform(n, v) == Series([i \in 1..n |-> v], n)

SpeedCurves ==
    UNION {SeqsOf(SpeedValues, n - 1) : n \in 1..MaxFrames}
        \cup {Uniform(n - 1, v) : n \in (1..MaxUniformFrames) \cup {ScenarioFrames},
                                  v \in SpeedValues}

ResampleInit ==
    /\ rpc = "start"
    /\ speed_curve \in SpeedCurves
    /\ frames = FrameIds(Len(speed_curve) + 1)
    /\ cumulative = None
    /\ n_output = -1
    /\ output_times = None
    /\ output_frames = None

ResampleIdle ==
    /\ rpc = "idle"
    /\ speed_curve = None
    /\ frames = None
    /\ cumulative = None
    /\ n_output = -1
    /\ output_times = None
    /\ output_frames = None

\* lines 232-252
ApplySpeedCurve ==
    /\ rpc = "start"
    /\ Len(speed_curve) > 0
    /\ LET n  == Len(frames)
           c  == Cumulative(speed_curve)
           no == NOutput(n, speed_curve)
           ot == Linspace(c[Len(c)], no)
       IN  /\ cumulative' = c
           /\ n_output' = no
           /\ output_times' = ot
           /\ output_frames' =
                 Series([j \in 1..no |-> frames[FrameIndex(c, ot[j], n) + 1]], no)
    /\ rpc' = "done"
    /\ UNCHANGED <<frames, speed_curve>>
    /\ UNCHANGED <<planVars, motionVars, batchVars, serviceVars>>

\* line 241 with an empty curve: np.mean is nan and int(nan) raises ValueError
ApplyRaises ==
    /\ rpc = "start"
    /\ Len(speed_curve) = 0
    /\ cumulative' = Cumulative(speed_curve)
    /\ rpc' = "ValueError"
    /\ UNCHANGED <<frames, speed_curve, n_output, output_times, output_frames>>
    /\ UNCHANGED <<planVars, motionVars, batchVars, serviceVars>>

(***************************************************************************)
(* main and process_video.  A video file is known by its position in       *)
(* video_files and by what decoding it yields: the frame rate that         *)
(* cv2.VideoCapture reports, the number of frames read, and whether        *)
(* matplotlib manages to save the analysis chart.  video_fps is the local  *)
(* `fps` of process_video, plan_fps the fps handed to                      *)
(* compute_speed_curve_smart (line 469), write_fps the fps handed to       *)
(* write_video (line 515).  attempted lists the calls of process_video,    *)
(* errors the exceptions caught at line 572, summary the rows printed at   *)
(* lines 583-586.  comparison is args.comparison; artifacts lists the      *)
(* files written, in the order in which they are written.                  *)
(***************************************************************************)
MaxFiles == 2

DecodedFps == {Zero, <<-1, 1>>, <<24, 1>>, <<120, 1>>, <<121, 1>>}

\* a clip that cannot be read has no diagnostics to fail; a clip that can be
\* read has its side-by-side video or its chart fail, or neither
VideoFiles ==
    [fps : DecodedFps, nframes : {0}, chart_ok : {TRUE}, side_ok : {TRUE}]
        \cup [fps : DecodedFps, nframes : {2}, chart_ok : {TRUE}, side_ok : BOOLEAN]
        \cup [fps : DecodedFps, nframes : {2}, chart_ok : {FALSE}, side_ok : {TRUE}]

\* what write_video is given for the file at position i: the frames of that
\* file retimed by the curve planned at plan_fps, to be encoded at write_fps
Normalized(i, pfps, wfps) ==
    [file |-> i, kind |-> "normalized", curve_fps |-> pfps, fps |-> wfps]

Diagnostic(i, k) == [file |-> i, kind |-> k]

\* every rate from 120 upwards replaced
FixFps_Inclusive(f) ==
    IF RLe(f, Zero) \/ RGe(f, <<120, 1>>) THEN REFERENCE_FPS ELSE f

\* lines 436-437
FixFps(f) ==
    IF RLe(f, Zero) \/ RGt(f, <<120, 1>>) THEN REFERENCE_FPS ELSE f

\* the loop left at the first exception
AfterError_Break(i, n) == n + 1

\* lines 568-573: the handler falls through to the next video_path
AfterError(i, n) == i + 1

BatchInit ==
    /\ bpc = "loop"
    /\ \E k \in 0..MaxFiles : video_files \in SeqsOf(VideoFiles, k)
    /\ next_file = 1
    /\ attempted = <<>>
    /\ results = <<>>
    /\ errors = <<>>
    /\ summary = None
    /\ video_fps = None
    /\ plan_fps = None
    /\ write_fps = None
    /\ comparison \in BOOLEAN
    /\ artifacts = <<>>

BatchIdle ==
    /\ bpc = "idle"
    /\ video_files = None
    /\ next_file = 1
    /\ attempted = <<>>
    /\ results = <<>>
    /\ errors = <<>>
    /\ summary = None
    /\ video_fps = None
    /\ plan_fps = None
    /\ write_fps = None
    /\ comparison = FALSE
    /\ artifacts = <<>>

\* lines 568-570, 433-440: the next file is handed to process_video, which
\* decodes it and repairs its frame rate
LoadVideo ==
    /\ bpc = "loop"
    /\ next_file <= Len(video_files)
    /\ attempted' = Append(attempted, next_file)
    /\ video_fps' = FixFps(video_files[next_file].fps)
    /\ plan_fps' = None
    /\ write_fps' = None
    /\ bpc' = "loaded"
    /\ UNCHANGED <<video_files, next_file, results, errors, summary,
                   comparison, artifacts>>
    /\ UNCHANGED <<planVars, motionVars, resampleVars, serviceVars>>

\* lines 443-498: motion measured, the curve planned
PlanCurve ==
    /\ bpc = "loaded"
    /\ plan_fps' = video_fps
    /\ bpc' = "planned"
    /\ UNCHANGED <<video_files, next_file, attempted, results, errors, summary,
                   video_fps, write_fps, comparison, artifacts>>
    /\ UNCHANGED <<planVars, motionVars, resampleVars, serviceVars>>

\* line 501 on a clip of fewer than 2 frames: the curve is empty, int(nan)
\* raises ValueError, which main catches at line 572
ApplyFails ==
    /\ bpc = "planned"
    /\ video_files[next_file].nframes < 2
    /\ errors' = Append(errors, next_file)
    /\ next_file' = AfterError(next_file, Len(video_files))
    /\ bpc' = "loop"
    /\ UNCHANGED <<video_files, attempted, results, summary,
                   video_fps, plan_fps, write_fps, comparison, artifacts>>
    /\ UNCHANGED <<planVars, motionVars, resampleVars, serviceVars>>

\* lines 501-515: the clip retimed and the normalized video written
WriteVideo ==
    /\ bpc = "planned"
    /\ ~(video_files[next_file].nframes < 2)
    /\ write_fps' = video_fps
    /\ artifacts' = Append(artifacts, Normalized(next_file, plan_fps, video_fps))
    /\ bpc' = "written"
    /\ UNCHANGED <<video_files, next_file, attempted, results, errors, summary,
                   video_fps, plan_fps, comparison>>
    /\ UNCHANGED <<planVars, motionVars, resampleVars, serviceVars>>

\* the side-by-side video attempted before the normalized video is written
SideBySideFails_BeforeWrite ==
    /\ bpc = "planned"
    /\ comparison
    /\ ~video_files[next_file].side_ok
    /\ errors' = Append(errors, next_file)
    /\ next_file' = AfterError(next_file, Len(video_files))
    /\ bpc' = "loop"
    /\ UNCHANGED <<video_files, attempted, results, summary,
                   video_fps, plan_fps, write_fps, comparison, artifacts>>
    /\ UNCHANGED <<planVars, motionVars, resampleVars, serviceVars>>

\* lines 518-521 with the comparison flag set: the side-by-side video written
SideBySide ==
    /\ bpc = "written"
    /\ comparison
    /\ video_files[next_file].side_ok
    /\ artifacts' = Append(artifacts, Diagnostic(next_file, "comparison"))
    /\ bpc' = "compared"
    /\ UNCHANGED <<video_files, next_file, attempted, results, errors, summary,
                   video_fps, plan_fps, write_fps, comparison>>
    /\ UNCHANGED <<planVars, motionVars, resampleVars, serviceVars>>

\* line 520 raising, caught at line 572
SideBySideFails ==
    /\ bpc = "written"
    /\ comparison
    /\ ~video_files[next_file].side_ok
    /\ errors' = Append(errors, next_file)
    /\ next_file' = AfterError(next_file, Len(video_files))
    /\ bpc' = "loop"
    /\ UNCHANGED <<video_files, attempted, results, summary,
                   video_fps, plan_fps, write_fps, comparison, artifacts>>
    /\ UNCHANGED <<planVars, motionVars, resampleVars, serviceVars>>

\* line 523 is reached: past line 515 with the flag clear, past line 521
\* with the flag set
AtChart == (bpc = "written" /\ ~comparison) \/ bpc = "compared"

\* line 524 raising (the chart cannot be saved), caught at line 572
ChartFails ==
    /\ AtChart
    /\ ~video_files[next_file].chart_ok
    /\ errors' = Append(errors, next_file)
    /\ next_file' = AfterError(next_file, Len(video_files))
    /\ bpc' = "loop"
    /\ UNCHANGED <<video_files, attempted, results, summary,
                   video_fps, plan_fps, write_fps, comparison, artifacts>>
    /\ UNCHANGED <<planVars, motionVars, resampleVars, serviceVars>>

\* lines 524-533, 571: process_video returns and its result is appended
ReturnResult ==
    /\ AtChart
    /\ video_files[next_file].chart_ok
    /\ artifacts' = Append(artifacts, Diagnostic(next_file, "chart"))
    /\ results' = Append(results, next_file)
    /\ next_file' = next_file + 1
    /\ bpc' = "loop"
    /\ UNCHANGED <<video_files, attempted, errors, summary,
                   video_fps, plan_fps, write_fps, comparison>>
    /\ UNCHANGED <<planVars, motionVars, resampleVars, serviceVars>>

\* lines 575-588: the loop is over, one row printed for every result
Summary ==
    /\ bpc = "loop"
    /\ ~(next_file <= Len(video_files))
    /\ summary' = results
    /\ bpc' = "done"
    /\ UNCHANGED <<video_files, next_file, attempted, results, errors,
                   video_fps, plan_fps, write_fps, comparison, artifacts>>
    /\ UNCHANGED <<planVars, motionVars, resampleVars, serviceVars>>

(***************************************************************************)
(* SeaArtAPI.poll_task (src/seaart_api.py, lines 556-654).  The clock is   *)
(* the event loop's time in whole seconds.  A response is what the         *)
(* page.evaluate call of lines 581-607 hands back: the script catches a    *)
(* failed fetch itself and answers {error: ...}, otherwise it answers the  *)
(* parsed body.  Of the body only what poll_task reads is kept: whether    *)
(* data.items is empty, the status of items[0], how many img_uris it has   *)
(* and whether img_uris[0] carries a url.                                  *)
(***************************************************************************)
MaxWaitMinutes    == 1
MaxPollInterval   == 30
MaxRequestSeconds == 1
MaxOversleep      == 1
MaxStartTime      == 3

PollIntervals == {5, MaxPollInterval}
StartTimes    == {0, MaxStartTime}

\* the clock of the model stops at ClockCap, a value that poll_task cannot
\* live to see: it gives up at the first loop head after max_wait_seconds
ClockCap ==
    MaxStartTime + 60 * MaxWaitMinutes
        + 2 * (MaxPollInterval + MaxOversleep + MaxRequestSeconds) + 1

VIDEO_URL == "https://cdn/video.mp4"

NoResponse    == [error |-> FALSE, items |-> 0, status |-> -1, img_uris |-> 0, url |-> FALSE]
ErrorResponse == [error |-> TRUE, items |-> 0, status |-> 0, img_uris |-> 0, url |-> FALSE]
EmptyResponse == [error |-> FALSE, items |-> 0, status |-> 0, img_uris |-> 0, url |-> FALSE]

Task(st, n, u) == [error |-> FALSE, items |-> 1, status |-> st, img_uris |-> n, url |-> u]

\* status 0 is a task without a status field (line 620), 1 waiting,
\* 2 processing, 3 finished, 4 failed
PollResponses ==
    {ErrorResponse, EmptyResponse}
        \cup {Task(st, 0, FALSE) : st \in {0, 1, 2, 4}}
        \cup {Task(3, 0, FALSE), Task(3, 1, FALSE), Task(3, 1, TRUE)}

\* a value poll_task returns: None, or a dict, of which the set of its keys
\* and the value under 'video_url' are kept
PollNone == [kind |-> "None", keys |-> {}, video_url |-> "None"]

\* lines 631-647: the dict built for a finished task
TaskResult(task) ==
    IF task.img_uris > 0
    THEN [kind |-> "dict",
          keys |-> {"task_id", "video_url", "cover_url", "width", "height",
                    "duration", "artwork_id"},
          video_url |-> IF task.url THEN VIDEO_URL ELSE "None"]
    ELSE [kind |-> "dict", keys |-> {"task_id", "status"}, video_url |-> "None"]

\* line 577
TimedOut_Never(elapsed, max_wait_seconds) == FALSE

TimedOut(elapsed, max_wait_seconds) == elapsed > max_wait_seconds

\* lines 609, 615: a response that is retried without looking at a task
NoTask(r) == r.error \/ r.items = 0

Tick(d) == IF now + d > ClockCap THEN ClockCap ELSE now + d

\* lines 570-572
PollInit ==
    /\ qpc = "top"
    /\ max_wait_minutes \in 0..MaxWaitMinutes
    /\ poll_interval \in PollIntervals
    /\ start_time \in StartTimes
    /\ now = start_time
    /\ response = NoResponse
    /\ poll_result = PollNone

PollIdle ==
    /\ qpc = "idle"
    /\ max_wait_minutes = 0
    /\ poll_interval = 0
    /\ start_time = 0
    /\ now = 0
    /\ response = NoResponse
    /\ poll_result = PollNone

\* lines 575-579: the loop head finds the time used up
PollTimeout ==
    /\ qpc = "top"
    /\ TimedOut(now - start_time, max_wait_minutes * 60)
    /\ poll_result' = PollNone
    /\ qpc' = "returned"
    /\ UNCHANGED <<max_wait_minutes, poll_interval, start_time, now, response>>
    /\ UNCHANGED <<planVars, motionVars, resampleVars, batchVars, pipeVars>>

\* lines 575-607: the loop head finds time left and asks for the progress
PollRequest ==
    /\ qpc = "top"
    /\ ~TimedOut(now - start_time, max_wait_minutes * 60)
    /\ \E r \in PollResponses, d \in 0..MaxRequestSeconds :
          /\ response' = r
          /\ now' = Tick(d)
    /\ qpc' = "respond"
    /\ UNCHANGED <<max_wait_minutes, poll_interval, start_time, poll_result>>
    /\ UNCHANGED <<planVars, motionVars, resampleVars, batchVars, pipeVars>>

\* asyncio.sleep(poll_interval) at lines 611, 616, 654, then the loop head
Sleep ==
    /\ \E over \in 0..MaxOversleep : now' = Tick(poll_interval + over)
    /\ qpc' = "top"

\* lines 609-617: an error or an empty item list
PollRetry ==
    /\ qpc = "respond"
    /\ NoTask(response)
    /\ Sleep
    /\ UNCHANGED <<max_wait_minutes, poll_interval, start_time, response,
                   poll_result>>
    /\ UNCHANGED <<planVars, motionVars, resampleVars, batchVars, pipeVars>>

\* lines 627-647
PollFinished ==
    /\ qpc = "respond"
    /\ ~NoTask(response)
    /\ response.status = 3
    /\ poll_result' = TaskResult(response)
    /\ qpc' = "returned"
    /\ UNCHANGED <<max_wait_minutes, poll_interval, start_time, now, response>>
    /\ UNCHANGED <<planVars, motionVars, resampleVars, batchVars, pipeVars>>

\* lines 649-652
PollFailed ==
    /\ qpc = "respond"
    /\ ~NoTask(response)
    /\ response.status = 4
    /\ poll_result' = PollNone
    /\ qpc' = "returned"
    /\ UNCHANGED <<max_wait_minutes, poll_interval, start_time, now, response>>
    /\ UNCHANGED <<planVars, motionVars, resampleVars, batchVars, pipeVars>>

\* line 654: any other status
PollWait ==
    /\ qpc = "respond"
    /\ ~NoTask(response)
    /\ response.status \notin {3, 4}
    /\ Sleep
    /\ UNCHANGED <<max_wait_minutes, poll_interval, start_time, response,
                   poll_result>>
    /\ UNCHANGED <<planVars, motionVars, resampleVars, batchVars, pipeVars>>

(***************************************************************************)
(* run_pipeline (src/seaart_pipeline.py, lines 135-361) from the creation  *)
(* of the SeaArtAPI client (line 183) to its return.  ppc is the position  *)
(* <<step, stage>>; calls is the list of the operations run so far with    *)
(* what each came to: "ok", "fail" (the falsy value the operation returns  *)
(* on failure), "raise" (an exception out of the operation) or             *)
(* "TypeError" (the call itself cannot be made).  compared holds the four  *)
(* paths handed to create_4way_comparison.                                 *)
(***************************************************************************)
NoPath       == "None"
ORIGINAL     == "00_original.mp4"
INTERPOLATED == "01_interpolated.mp4"
TEMPO_FIXED  == "02_tempo_fixed.mp4"
HD_FIXED     == "03_hd_fixed.mp4"

NoPaths ==
    [original |-> NoPath, interpolated |-> NoPath, tempo_fixed |-> NoPath,
     hd_fixed |-> NoPath]

Stages == {1, 3}

Outcomes == {"ok", "fail", "raise"}

\* seaart_api.py, lines 376 and 451: the parameters after self
RunInterpolationParams == <<"video_url", "target_fps", "multiplier">>

RunHdUpscaleParams ==
    <<"video_url", "parent_task_id", "artwork_id", "width", "height", "duration">>

\* seaart_pipeline.py, line 211 and lines 285-292: the arguments of the calls
InterpolationCall ==
    [positional |-> <<"uploaded_url", "INTERPOLATION_APP_ID">>,
     keywords |-> {"target_fps", "multiplier"}]

HdUpscaleCall ==
    [positional |-> <<"uploaded_url", "parent_task_id", "artwork_id">>,
     keywords |-> {"width", "height", "duration"}]

TARGET_FPS == 60
MULTIPLIER == 2

\* Python's binding of arguments to parameters: the positional arguments
\* fill the parameters from the left, every keyword names a parameter, and
\* no keyword names a parameter that a positional argument has filled;
\* otherwise the call raises TypeError before the function is entered
BindsCleanly(params, call) ==
    /\ Len(call.positional) <= Len(params)
    /\ call.keywords \subseteq {params[i] : i \in 1..Len(params)}
    /\ \A i \in 1..Len(call.positional) : params[i] \notin call.keywords

\* `result and result.get('video_url')`, lines 218 and 300
Usable(result) ==
    /\ result.kind = "dict"
    /\ "video_url" \in result.keys
    /\ result.video_url # "None"

\* the values poll_task can return
PollReturns == {PollNone} \cup {TaskResult(t) : t \in {r \in PollResponses : r.status = 3}}

\* `video_paths['interpolated'] or original_copy`, lines 245 and 256
OrOriginal(path) == IF path # NoPath THEN path ELSE ORIGINAL

Skipped(s) == IF s = 1 THEN skip_interpolation ELSE skip_hd

Log(op, s, o, a) ==
    calls' = Append(calls, [op |-> op, stage |-> s, outcome |-> o, args |-> a])

\* a return statement in the try block or in the except clause: the finally
\* clause of line 360 runs before run_pipeline hands the value back
Return_NoFinally(value) ==
    /\ retval' = value
    /\ ppc' = <<"returned", 5>>

Return(value) ==
    /\ retval' = value
    /\ ppc' = <<"finally", 5>>

\* whether a failure reported by a step of stage s ends the run: the
\* `return False` of lines 208, 214, 220, 230 against the fallbacks of lines
\* 270, 296, 302, 309
Fatal_Always(s) == TRUE

Fatal(s) == s = 1

StepFailed(s) ==
    IF Fatal(s)
    THEN /\ Return("False")
         /\ UNCHANGED video_paths
    ELSE /\ video_paths' = [video_paths EXCEPT !.hd_fixed = video_paths.tempo_fixed]
         /\ ppc' = <<"comparison", 4>>
         /\ UNCHANGED retval

\* lines 355-359: any exception out of the try block
Raised ==
    /\ Return("False")
    /\ UNCHANGED video_paths

\* lines 175-183
PipelineInit ==
    /\ ppc = <<"created", 0>>
    /\ skip_interpolation \in BOOLEAN
    /\ skip_tempo \in BOOLEAN
    /\ skip_hd \in BOOLEAN
    /\ video_paths = [NoPaths EXCEPT !.original = ORIGINAL]
    /\ current_task_result = PollNone
    /\ connected = FALSE
    /\ close_calls = 0
    /\ retval = "none"
    /\ calls = <<>>
    /\ compared = NoPaths

PipelineIdle ==
    /\ ppc = <<"idle", 0>>
    /\ skip_interpolation = FALSE
    /\ skip_tempo = FALSE
    /\ skip_hd = FALSE
    /\ video_paths = NoPaths
    /\ current_task_result = PollNone
    /\ connected = FALSE
    /\ close_calls = 0
    /\ retval = "none"
    /\ calls = <<>>
    /\ compared = NoPaths

ServiceIdle == PipelineIdle /\ PollIdle

\* lines 191-196; seaart_api.py, lines 111-195
Connect ==
    /\ ppc = <<"created", 0>>
    /\ \E o \in Outcomes :
          /\ Log("connect", 0, o, <<>>)
          /\ connected' = (o = "ok")
          /\ IF o = "ok"
             THEN ppc' = <<"upload", 1>> /\ UNCHANGED retval
             ELSE Return("False")
    /\ UNCHANGED <<skip_interpolation, skip_tempo, skip_hd, video_paths,
                   current_task_result, close_calls, compared>>
    /\ UNCHANGED <<planVars, motionVars, resampleVars, batchVars, pollVars>>

\* lines 234-236
SkipStage1 ==
    /\ ppc = <<"upload", 1>>
    /\ skip_interpolation
    /\ video_paths' = [video_paths EXCEPT !.interpolated = video_paths.original]
    /\ ppc' = <<"tempo", 2>>
    /\ UNCHANGED <<skip_interpolation, skip_tempo, skip_hd, current_task_result,
                   connected, close_calls, retval, calls, compared>>
    /\ UNCHANGED <<planVars, motionVars, resampleVars, batchVars, pollVars>>

\* lines 199-208 and 259-270: api.upload_video
Upload(s) ==
    /\ ppc = <<"upload", s>>
    /\ ~Skipped(s)
    /\ \E o \in Outcomes :
          /\ Log("upload_video", s, o, <<>>)
          /\ CASE o = "ok" -> ppc' = <<"start", s>> /\ UNCHANGED <<retval, video_paths>>
               [] o = "fail" -> StepFailed(s)
               [] o = "raise" -> Raised
    /\ UNCHANGED <<skip_interpolation, skip_tempo, skip_hd, current_task_result,
                   connected, close_calls, compared>>
    /\ UNCHANGED <<planVars, motionVars, resampleVars, batchVars, pollVars>>

\* line 211 and lines 274-292: the call that starts the remote task
StartCall(s) ==
    IF s = 1
    THEN [op |-> "run_interpolation", params |-> RunInterpolationParams,
          call |-> InterpolationCall, args |-> <<TARGET_FPS, MULTIPLIER>>]
    ELSE [op |-> "run_hd_upscale", params |-> RunHdUpscaleParams,
          call |-> HdUpscaleCall,
          args |-> IF current_task_result.kind = "dict"
                   THEN <<"task_id", "artwork_id">> ELSE <<"", "">>]

\* lines 211-214 and 285-296
Start(s) ==
    /\ ppc = <<"start", s>>
    /\ LET c == StartCall(s)
       IN  IF ~BindsCleanly(c.params, c.call)
           THEN /\ Log(c.op, s, "TypeError", c.args)
                /\ Raised
           ELSE \E o \in Outcomes :
                   /\ Log(c.op, s, o, c.args)
                   /\ CASE o = "ok" -> ppc' = <<"poll", s>> /\ UNCHANGED <<retval, video_paths>>
                        [] o = "fail" -> StepFailed(s)
                        [] o = "raise" -> Raised
    /\ UNCHANGED <<skip_interpolation, skip_tempo, skip_hd, current_task_result,
                   connected, close_calls, compared>>
    /\ UNCHANGED <<planVars, motionVars, resampleVars, batchVars, pollVars>>

\* lines 217-223 and 299-302: api.poll_task and the test of its result
Poll(s) ==
    /\ ppc = <<"poll", s>>
    /\ \/ \E r \in PollReturns :
             IF Usable(r)
             THEN /\ Log("poll_task", s, "ok", <<>>)
                  /\ current_task_result' = IF s = 1 THEN r ELSE current_task_result
                  /\ ppc' = <<"download", s>>
                  /\ UNCHANGED <<retval, video_paths>>
             ELSE /\ Log("poll_task", s, "fail", <<>>)
                  /\ StepFailed(s)
                  /\ UNCHANGED current_task_result
       \/ /\ Log("poll_task", s, "raise", <<>>)
          /\ Raised
          /\ UNCHANGED current_task_result
    /\ UNCHANGED <<skip_interpolation, skip_tempo, skip_hd, connected,
                   close_calls, compared>>
    /\ UNCHANGED <<planVars, motionVars, resampleVars, batchVars, pollVars>>

\* lines 226-233 and 305-312: api.download_video, which catches its own
\* exceptions (seaart_api.py, lines 673-694)
Download(s) ==
    /\ ppc = <<"download", s>>
    /\ \E o \in {"ok", "fail"} :
          /\ Log("download_video", s, o, <<>>)
          /\ IF o = "ok"
             THEN /\ video_paths' =
                        IF s = 1
                        THEN [video_paths EXCEPT !.interpolated = INTERPOLATED]
                        ELSE [video_paths EXCEPT !.hd_fixed = HD_FIXED]
                  /\ ppc' = IF s = 1 THEN <<"tempo", 2>> ELSE <<"comparison", 4>>
                  /\ UNCHANGED retval
             ELSE StepFailed(s)
    /\ UNCHANGED <<skip_interpolation, skip_tempo, skip_hd, current_task_result,
                   connected, close_calls, compared>>
    /\ UNCHANGED <<planVars, motionVars, resampleVars, batchVars, pollVars>>

\* lines 239-253: run_tempo_normalizer, which catches its own exceptions
\* (lines 74-132) and returns None on failure
TempoNormalize ==
    /\ ppc = <<"tempo", 2>>
    /\ ~skip_tempo
    /\ LET input_for_tempo == OrOriginal(video_paths.interpolated)
       IN  \E o \in {"ok", "fail"} :
              /\ Log("run_tempo_normalizer", 2, o, <<>>)
              /\ video_paths' =
                    [video_paths EXCEPT !.tempo_fixed =
                        IF o = "ok" THEN TEMPO_FIXED ELSE input_for_tempo]
    /\ ppc' = <<"upload", 3>>
    /\ UNCHANGED <<skip_interpolation, skip_tempo, skip_hd, current_task_result,
                   connected, close_calls, retval, compared>>
    /\ UNCHANGED <<planVars, motionVars, resampleVars, batchVars, pollVars>>

\* lines 254-256
SkipStage2 ==
    /\ ppc = <<"tempo", 2>>
    /\ skip_tempo
    /\ video_paths' =
          [video_paths EXCEPT !.tempo_fixed = OrOriginal(video_paths.interpolated)]
    /\ ppc' = <<"upload", 3>>
    /\ UNCHANGED <<skip_interpolation, skip_tempo, skip_hd, current_task_result,
                   connected, close_calls, retval, calls, compared>>
    /\ UNCHANGED <<planVars, motionVars, resampleVars, batchVars, pollVars>>

\* lines 313-315
SkipStage3 ==
    /\ ppc = <<"upload", 3>>
    /\ skip_hd
    /\ video_paths' = [video_paths EXCEPT !.hd_fixed = video_paths.tempo_fixed]
    /\ ppc' = <<"comparison", 4>>
    /\ UNCHANGED <<skip_interpolation, skip_tempo, skip_hd, current_task_result,
                   connected, close_calls, retval, calls, compared>>
    /\ UNCHANGED <<planVars, motionVars, resampleVars, batchVars, pollVars>>

\* lines 322-353: create_4way_comparison returns True or False and the run
\* returns True either way
Comparison ==
    /\ ppc = <<"comparison", 4>>
    /\ \E success \in BOOLEAN :
          Log("create_4way_comparison", 4, IF success THEN "ok" ELSE "fail", <<>>)
    /\ compared' = video_paths
    /\ Return("True")
    /\ UNCHANGED <<skip_interpolation, skip_tempo, skip_hd, video_paths,
                   current_task_result, connected, close_calls>>
    /\ UNCHANGED <<planVars, motionVars, resampleVars, batchVars, pollVars>>

\* lines 360-361; seaart_api.py, lines 696-707: close catches what closing
\* the browser raises and clears _connected
Close ==
    /\ ppc = <<"finally", 5>>
    /\ close_calls' = close_calls + 1
    /\ connected' = FALSE
    /\ ppc' = <<"returned", 5>>
    /\ UNCHANGED <<skip_interpolation, skip_tempo, skip_hd, video_paths,
                   current_task_result, retval, calls, compared>>
    /\ UNCHANGED <<planVars, motionVars, resampleVars, batchVars, pollVars>>

(***************************************************************************)
(* Specifications: each function driven over its bounded inputs.           *)
(***************************************************************************)
Init == PlanInit /\ MotionIdle /\ ResampleIdle /\ BatchIdle /\ ServiceIdle

Next ==
    \/ ShortReturn
    \/ Measure
    \/ DecideFast
    \/ DecideBorderline
    \/ DecideSlow
    \/ DegenerateReturn
    \/ PerSampleLoop
    \/ SmoothAndRamp
    \/ ReportStatus

Spec == Init /\ [][Next]_vars

InitMotion == PlanIdle /\ MotionInit /\ ResampleIdle /\ BatchIdle /\ ServiceIdle

NextMotion == ComputeMotion

SpecMotion == InitMotion /\ [][NextMotion]_vars

InitResample == PlanIdle /\ MotionIdle /\ ResampleInit /\ BatchIdle /\ ServiceIdle

NextResample ==
    \/ ApplySpeedCurve
    \/ ApplyRaises

SpecResample == InitResample /\ [][NextResample]_vars

\* the three stages of the engine, one of them running at a time
InitEngine == Init \/ InitMotion \/ InitResample

NextEngine ==
    \/ Next
    \/ NextMotion
    \/ NextResample

SpecEngine == InitEngine /\ [][NextEngine]_vars

InitMain == PlanIdle /\ MotionIdle /\ ResampleIdle /\ BatchInit /\ ServiceIdle

NextMain ==
    \/ LoadVideo
    \/ PlanCurve
    \/ ApplyFails
    \/ WriteVideo
    \/ SideBySide
    \/ SideBySideFails
    \/ ChartFails
    \/ ReturnResult
    \/ Summary

SpecMain == InitMain /\ [][NextMain]_vars

InitPipeline ==
    PlanIdle /\ MotionIdle /\ ResampleIdle /\ BatchIdle /\ PipelineInit /\ PollIdle

NextPipeline ==
    \/ Connect
    \/ SkipStage1
    \/ \E s \in Stages : Upload(s)
    \/ \E s \in Stages : Start(s)
    \/ \E s \in Stages : Poll(s)
    \/ \E s \in Stages : Download(s)
    \/ TempoNormalize
    \/ SkipStage2
    \/ SkipStage3
    \/ Comparison
    \/ Close

SpecPipeline == InitPipeline /\ [][NextPipeline]_vars

InitPoll ==
    PlanIdle /\ MotionIdle /\ ResampleIdle /\ BatchIdle /\ PipelineIdle /\ PollInit

NextPoll ==
    \/ PollTimeout
    \/ PollRequest
    \/ PollRetry
    \/ PollFinished
    \/ PollFailed
    \/ PollWait

SpecPoll == InitPoll /\ [][NextPoll]_vars

\* every request is answered and every sleep ends, so that a step of
\* poll_task that can be taken is taken
SpecPollFair == SpecPoll /\ WF_vars(NextPoll)

(***************************************************************************)
(* Properties of compute_speed_curve_smart.                                *)
(***************************************************************************)
NSamples == Len(raw_motion)

IsConstant(x, v) == \A i \in 1..Len(x) : x[i] = v

\* 1.5 * (24 / fps), written out
FloorFor(f) == RDiv(<<36, 1>>, f)

\* C1: every speed the per-sample loop leaves behind (before the final
\* smoothing) lies in [max_slowdown, max_speedup], whatever the zone and
\* whichever branch (ratio < 1, ratio > 1) produced it.
C1_PreSmoothingWithinClamp ==
    raw_speed # None =>
        \A i \in 1..NSamples :
            /\ RLe(max_slowdown, raw_speed[i])
            /\ RLe(raw_speed[i], max_speedup)

\* C4: exactly one zone is chosen, by beginning_raw alone: Fast iff
\* beginning_raw >= min_acceptable, Borderline iff it lies in
\* [0.85 * min_acceptable, min_acceptable), Slow iff it is below
\* 0.85 * min_acceptable; beginning_raw is read off the raw series only.
C4_ZoneDecision ==
    zone # "none" =>
        LET floor == FloorFor(fps)
            thr   == RMul(<<17, 20>>, floor)
            sec   == IF 10 < fps[1] \div fps[2] THEN fps[1] \div fps[2] ELSE 10
            win   == IF sec < NSamples \div 4 THEN sec ELSE NSamples \div 4
            braw  == MeanFirst(gaussian_filter1d(raw_motion, smoothing), win)
        IN  /\ beginning_raw = braw
            /\ zone \in {"Fast", "Borderline", "Slow"}
            /\ (zone = "Fast") <=> RGe(braw, floor)
            /\ (zone = "Borderline") <=> (RGe(braw, thr) /\ RLt(braw, floor))
            /\ (zone = "Slow") <=> RLt(braw, thr)

C4_Witness ==
    /\ pc = "decided"
    /\ zone = "Borderline"
    /\ fps = <<24, 1>>
    /\ beginning_raw = <<51, 40>>

\* C5: in the Slow zone reference_tempo = max(2.2 * beginning_subject,
\* 1.2 * min_acceptable) and correction_strength = 0.95, so reference_tempo
\* is at least 1.2 * min_acceptable even for an all-zero subject series.
C5_SlowZonePlan ==
    zone = "Slow" =>
        LET floor == FloorFor(fps)
            a     == RMul(<<11, 5>>, beginning_subject)
            b     == RMul(<<6, 5>>, floor)
        IN  /\ reference_tempo = (IF RLt(a, b) THEN b ELSE a)
            /\ correction_strength = <<19, 20>>
            /\ RGe(reference_tempo, b)

C5_Witness ==
    /\ pc = "decided"
    /\ zone = "Slow"
    /\ IsConstant(subject_motion, Zero)
    /\ reference_tempo = RMul(<<6, 5>>, FloorFor(fps))

\* C6: a clip whose raw and subject motion are constantly 0.5, at 24 fps
\* with max_speedup = 2.0, is planned in the Slow zone with reference_tempo
\* 1.8; every speed before smoothing is max_speedup, and every sample at or
\* after the ramp-in length ends at 2.0.
C6_ScenarioSlow ==
    ( /\ pc # "idle"
      /\ NSamples >= 10
      /\ IsConstant(raw_motion, <<1, 2>>)
      /\ IsConstant(subject_motion, <<1, 2>>)
      /\ fps = <<24, 1>>
      /\ max_speedup = <<2, 1>> ) =>
        /\ zone # "none" => (zone = "Slow" /\ reference_tempo = <<9, 5>>)
        /\ raw_speed # None => IsConstant(raw_speed, max_speedup)
        /\ pc = "done" =>
              LET ramp == IF 24 < NSamples \div 5 THEN 24 ELSE NSamples \div 5
              IN  \A i \in 1..NSamples : i - 1 >= ramp => speed[i] = <<2, 1>>

C6_Witness ==
    /\ pc = "done"
    /\ returned = "curve"
    /\ NSamples = ScenarioSamples
    /\ IsConstant(raw_motion, <<1, 2>>)
    /\ IsConstant(subject_motion, <<1, 2>>)
    /\ speed[NSamples] = <<2, 1>>
    /\ speed[1] = One

\* C7: in the Fast zone reference_tempo = beginning_subject and
\* correction_strength = 0.5; for a constant subject series every sample
\* then has ratio 1 and the speed curve is 1.0 at every sample.
C7_ScenarioFast ==
    zone = "Fast" =>
        /\ reference_tempo = beginning_subject
        /\ correction_strength = <<1, 2>>
        /\ (\E v \in SubjectValues : IsConstant(subject_motion, v)) =>
              /\ (pc = "decided" /\ reference_tempo # Zero) =>
                    \A i \in 1..NSamples :
                        RDiv(smoothed_subject[i], reference_tempo) = One
              /\ raw_speed # None => IsConstant(raw_speed, One)
              /\ pc = "done" => IsConstant(speed, One)

C7_Witness ==
    /\ pc = "done"
    /\ returned = "curve"
    /\ zone = "Fast"
    /\ NSamples = ScenarioSamples
    /\ fps = <<24, 1>>
    /\ IsConstant(raw_motion, <<3, 1>>)
    /\ IsConstant(subject_motion, <<3, 1>>)
    /\ IsConstant(speed, One)

\* C8: in the Borderline zone, with pct = beginning_raw / min_acceptable:
\* if noise_factor < 0.95 then reference_tempo = beginning_subject *
\* min(1 + (1 - pct) * (0.4 / 0.15), 1.4) and correction_strength =
\* min(0.3 + (1 - pct) * (0.4 / 0.15), 0.7); otherwise reference_tempo =
\* beginning_subject * 1.05 and correction_strength = 0.3.  The strength
\* lies in [0.3, 0.7] in Borderline and in [0, 1] in every zone, and the
\* boost never exceeds 1.4.
C8_BorderlinePlan ==
    /\ zone # "none" =>
          (RLe(Zero, correction_strength) /\ RLe(correction_strength, One))
    /\ zone = "Borderline" =>
          LET pct  == RDiv(beginning_raw, FloorFor(fps))
              gain == RMul(RSub(One, pct), <<8, 3>>)
              bst  == RAdd(One, gain)
              str  == RAdd(<<3, 10>>, gain)
          IN  /\ RLt(noise_factor, <<19, 20>>) =>
                    /\ reference_tempo =
                          RMul(beginning_subject,
                               IF RLt(<<7, 5>>, bst) THEN <<7, 5>> ELSE bst)
                    /\ correction_strength =
                          (IF RLt(<<7, 10>>, str) THEN <<7, 10>> ELSE str)
              /\ ~RLt(noise_factor, <<19, 20>>) =>
                    /\ reference_tempo = RMul(beginning_subject, <<21, 20>>)
                    /\ correction_strength = <<3, 10>>
              /\ RLe(<<3, 10>>, correction_strength)
              /\ RLe(correction_strength, <<7, 10>>)
              /\ RLe(reference_tempo, RMul(beginning_subject, <<7, 5>>))

C8_Witness ==
    /\ pc = "decided"
    /\ zone = "Borderline"
    /\ RLt(noise_factor, <<19, 20>>)
    /\ beginning_raw = <<13, 10>>
    /\ beginning_subject = <<3, 1>>
    /\ correction_strength = <<59, 90>>

\* C11: with fewer than 10 samples compute_speed_curve_smart returns a curve
\* of exactly n entries, all 1.0, whatever the motion values, the fps, the
\* noise factor and the clamps, and classifies no zone on the way.
C11_InsufficientSamples ==
    NSamples < 10 =>
        /\ pc \in {"start", "done"}
        /\ zone = "none"
        /\ min_acceptable = None
        /\ correction_strength = None
        /\ raw_speed = None
        /\ pc = "done" =>
              /\ returned = "short"
              /\ Len(speed) = NSamples
              /\ IsConstant(speed, One)

C11_Witness ==
    /\ pc = "done"
    /\ returned = "short"
    /\ NSamples = MaxShortSamples
    /\ IsConstant(raw_motion, <<1, 2>>)
    /\ fps = <<60, 1>>
    /\ noise_factor = <<89, 100>>
    /\ speed = Ones(MaxShortSamples)

\* C12: when the reference_tempo of the zone decision is below 0.001 the
\* planner returns an all-ones curve of length n with the smoothed subject
\* series and never enters the per-sample loop; whenever the loop has run,
\* reference_tempo was at least 0.001 and both of its divisors,
\* reference_tempo and smoothed_subject[i] + 0.001, are strictly positive.
C12_DegenerateGuard ==
    /\ returned = "degenerate" =>
          /\ RLt(reference_tempo, <<1, 1000>>)
          /\ raw_speed = None
          /\ Len(speed) = NSamples
          /\ IsConstant(speed, One)
          /\ smoothed_subject = gaussian_filter1d(subject_motion, smoothing)
    /\ (zone # "none" /\ pc \in {"clamped", "done"}
            /\ RLt(reference_tempo, <<1, 1000>>)) =>
          returned = "degenerate"
    /\ raw_speed # None =>
          /\ RGe(reference_tempo, <<1, 1000>>)
          /\ RGt(reference_tempo, Zero)
          /\ \A i \in 1..NSamples :
                RGt(RAdd(smoothed_subject[i], <<1, 1000>>), Zero)

C12_Witness ==
    /\ pc = "done"
    /\ returned = "degenerate"
    /\ zone = "Fast"
    /\ NSamples = MaxSamples
    /\ reference_tempo = Zero
    /\ IsConstant(speed, One)

\* C16: min_acceptable = 1.5 * (24 / fps); the value for twice the frame
\* rate is exactly half of it, and the borderline threshold halves with it.
C16_ScalingLaw ==
    min_acceptable # None =>
        LET twice == RMul(<<2, 1>>, fps)
        IN  /\ min_acceptable = RMul(<<3, 2>>, RDiv(<<24, 1>>, fps))
            /\ RMul(<<2, 1>>, MinAcceptable(twice)) = min_acceptable
            /\ RMul(<<2, 1>>, BorderlineThreshold(MinAcceptable(twice)))
                   = BorderlineThreshold(min_acceptable)

C16_Witness ==
    /\ pc = "measured"
    /\ fps = <<24, 1>>
    /\ min_acceptable = <<3, 2>>
    /\ MinAcceptable(<<48, 1>>) = <<3, 4>>
    /\ BorderlineThreshold(min_acceptable) = <<51, 40>>

\* round() of Python for q >= 0: to the nearest integer, a tie to the even one
RoundHalfEven(q) ==
    LET f == q[1] \div q[2]
        d == 2 * (q[1] % q[2])
    IN  IF d < q[2] THEN f
        ELSE IF d > q[2] THEN f + 1
        ELSE IF f % 2 = 0 THEN f ELSE f + 1

\* C17 as stated: for n >= 10 the opening is averaged over
\* clamp(max(10, round(fps)), 1, n/4) samples, fps rounded to the nearest
\* integer.
C17_WindowRounded ==
    ref_frames # -1 =>
        LET sec == IF RoundHalfEven(fps) > 10 THEN RoundHalfEven(fps) ELSE 10
            cap == IF sec < NSamples \div 4 THEN sec ELSE NSamples \div 4
            win == IF cap < 1 THEN 1 ELSE cap
        IN  /\ ref_frames = win
            /\ beginning_raw = MeanFirst(smoothed_raw, win)
            /\ beginning_subject = MeanFirst(smoothed_subject, win)

\* C17 as amended: for n >= 10 the opening is averaged over
\* min(max(10, int(fps)), n // 4) samples, fps cut to its integer part (not
\* rounded); that is at least 1 (at least 2, in fact) and never more than a
\* quarter of the clip.
C17_WindowTruncated ==
    ref_frames # -1 =>
        LET whole == fps[1] \div fps[2]
            sec   == IF whole > 10 THEN whole ELSE 10
            win   == IF sec < NSamples \div 4 THEN sec ELSE NSamples \div 4
        IN  /\ NSamples >= 10
            /\ ref_frames = win
            /\ beginning_raw = MeanFirst(smoothed_raw, win)
            /\ beginning_subject = MeanFirst(smoothed_subject, win)
            /\ win >= 1
            /\ 4 * win <= NSamples

C17_Witness ==
    /\ pc = "measured"
    /\ NSamples = LongSamples
    /\ fps = HalfNtscFps
    /\ ref_frames = 14

\* |a - 1|
DistanceFromOne(a) == IF RLt(a, One) THEN RSub(One, a) ELSE RSub(a, One)

\* what the ramp-in of length len makes of the smoothed curve: sample i < len
\* becomes 1 + (speed[i] - 1) * (i / len)^2, so sample 0 becomes 1.0, no
\* sample moves further from 1.0, and the samples from len on are kept.
RampedOver(len) ==
    /\ ramp_frames = len
    /\ Len(speed) = NSamples
    /\ \A i \in 0..(NSamples - 1) :
          IF i < len
          THEN LET blend == RDiv(<<i, 1>>, <<len, 1>>)
               IN  /\ speed[i + 1] =
                         RAdd(One, RMul(RSub(smoothed_speed[i + 1], One),
                                        RMul(blend, blend)))
                   /\ RLe(DistanceFromOne(speed[i + 1]),
                          DistanceFromOne(smoothed_speed[i + 1]))
          ELSE speed[i + 1] = smoothed_speed[i + 1]
    /\ len >= 1 => speed[1] = One

\* C18 as stated: the ramp-in runs over min(round(fps), n/5) samples, fps
\* rounded to the nearest integer.
C18_RampRounded ==
    returned = "curve" =>
        LET sec == RoundHalfEven(fps)
        IN  RampedOver(IF sec < NSamples \div 5 THEN sec ELSE NSamples \div 5)

\* C18 as amended: the ramp-in runs over min(int(fps), n // 5) samples, fps
\* cut to its integer part (not rounded); each sample i below that length is
\* replaced by 1 + (speed[i] - 1) * (i / length)^2, so speed[0] is exactly
\* 1.0 whenever the length is >= 1, no ramped sample moves further from 1.0
\* than it was, and every sample from that length on is left as it was.
C18_RampTruncated ==
    returned = "curve" =>
        LET sec == fps[1] \div fps[2]
        IN  RampedOver(IF sec < NSamples \div 5 THEN sec ELSE NSamples \div 5)

C18_Witness ==
    /\ returned = "curve"
    /\ NSamples = LongSamples
    /\ fps = HalfNtscFps
    /\ ramp_frames = 14
    /\ smoothed_speed[1] = <<2, 1>>
    /\ speed[1] = One
    /\ speed[2] = <<197, 196>>
    /\ speed[15] = <<2, 1>>

\* C23: the zone named in the STATUS line of process_video (SLOW,
\* BORDERLINE, GOOD) is the zone in which compute_speed_curve_smart chose
\* reference_tempo and correction_strength for the clip (Slow, Borderline,
\* Fast).
C23_StatusIsZone ==
    (status # "none" /\ zone # "none") =>
        \/ status = "SLOW" /\ zone = "Slow"
        \/ status = "BORDERLINE" /\ zone = "Borderline"
        \/ status = "GOOD" /\ zone = "Fast"

\* C24: a sample whose smoothed subject motion is below reference_tempo
\* (ratio < 1) leaves the per-sample loop with a speed >= 1.0, a sample
\* above it (ratio > 1) with a speed <= 1.0.
C24_NeverTheWrongWay ==
    raw_speed # None =>
        \A i \in 1..NSamples :
            LET ratio == RDiv(smoothed_subject[i], reference_tempo)
            IN  /\ RLt(ratio, One) => RGe(raw_speed[i], One)
                /\ RGt(ratio, One) => RLe(raw_speed[i], One)

(***************************************************************************)
(* Properties of compute_motion.                                           *)
(***************************************************************************)
RatioSamples ==
    {<<1, 2>>, One, <<3, 2>>, <<15, 8>>, <<9, 4>>, <<21, 8>>, <<3, 1>>, <<5, 1>>, <<6, 1>>}

\* C2: noise_factor is the piecewise-linear function of the mean/median
\* ratio: 1.0 from 3.0 upwards, 0.78 up to 1.5, 0.78 + (ratio - 1.5) * 0.22 / 1.5
\* in between (0.89 at 2.25); so it lies in [0.78, 1.0] and never decreases
\* as the ratio grows.
C2_NoiseFactorMapping ==
    mpc = "done" =>
        /\ noise_out =
              (IF RLe(<<3, 1>>, mm_ratio) THEN One
               ELSE IF RLe(mm_ratio, <<3, 2>>) THEN <<39, 50>>
               ELSE RAdd(<<39, 50>>, RMul(RSub(mm_ratio, <<3, 2>>), <<11, 75>>)))
        /\ RLe(<<39, 50>>, noise_out)
        /\ RLe(noise_out, One)
        /\ mm_ratio = <<9, 4>> => noise_out = <<89, 100>>
        /\ \A r \in RatioSamples :
              /\ RLe(r, mm_ratio) => RLe(NoiseFactorOf(r), noise_out)
              /\ RLe(mm_ratio, r) => RLe(noise_out, NoiseFactorOf(r))

C2_Witness ==
    /\ mpc = "done"
    /\ Len(flows) = 2
    /\ mm_ratio = <<9, 4>>
    /\ noise_out = <<89, 100>>

\* C13: given fewer than 2 frames (none, or one) compute_motion returns an
\* empty motion series and noise_factor 1.0 without failing; given n >= 2
\* frames it returns exactly n - 1 samples.
C13_MotionLength ==
    mpc = "done" =>
        /\ Len(motion_frames) < 2 => (motion = <<>> /\ noise_out = One)
        /\ Len(motion_frames) >= 2 => Len(motion) = Len(motion_frames) - 1

C13_Witness ==
    /\ mpc = "done"
    /\ Len(motion_frames) = 1
    /\ avg_median = NaN
    /\ mm_ratio = <<5, 1>>
    /\ motion = <<>>
    /\ noise_out = One

(***************************************************************************)
(* Properties of apply_speed_curve.                                        *)
(***************************************************************************)
NFrames == Len(frames)

RECURSIVE RSumRange(_, _, _)
RSumRange(x, lo, hi) ==
    IF lo > hi THEN Zero
    ELSE IF lo = hi THEN x[lo]
    ELSE RAdd(RSumRange(x, lo, (lo + hi) \div 2),
              RSumRange(x, (lo + hi) \div 2 + 1, hi))

RSumUpTo(x, k) == RSumRange(x, 1, k)

\* n / mean(speed_curve) = n * len / sum
FramesOverMean == RDiv(<<NFrames * Len(speed_curve), 1>>, RSumUpTo(speed_curve, Len(speed_curve)))

\* round() of Python: to the nearest integer, a tie to the even one
Round(q) ==
    LET f  == q[1] \div q[2]
        r2 == RMul(<<2, 1>>, RSub(q, <<f, 1>>))
    IN  IF RLt(r2, One) THEN f
        ELSE IF RGt(r2, One) THEN f + 1
        ELSE IF f % 2 = 0 THEN f ELSE f + 1

IntMax(a, b) == IF a < b THEN b ELSE a

\* C3: with a curve of all 1.0 and n >= 2 frames the output has n frames and
\* position k holds input frame k: nothing reordered, duplicated or dropped.
C3_IdentityCurve ==
    ( /\ rpc = "done"
      /\ NFrames >= 2
      /\ IsConstant(speed_curve, One) ) =>
        /\ Len(output_frames) = NFrames
        /\ \A k \in 1..NFrames : output_frames[k] = k - 1

C3_Witness ==
    /\ rpc = "done"
    /\ NFrames = MaxUniformFrames
    /\ IsConstant(speed_curve, One)
    /\ output_frames = frames

\* C9 as stated: the number of frames emitted is round(n / mean(speed))
\* clamped to at least n/3.
C9_CountRounded ==
    rpc = "done" =>
        Len(output_frames) = IntMax(Round(FramesOverMean), NFrames \div 3)

\* C9 as amended: the number of frames emitted is n / mean(speed) cut to its
\* integer part (not rounded), clamped to at least the integer part of n/3.
C9_CountTruncated ==
    rpc = "done" =>
        LET q == FramesOverMean
        IN  Len(output_frames) = IntMax(q[1] \div q[2], NFrames \div 3)

C9_Witness ==
    /\ rpc = "done"
    /\ FramesOverMean[2] # 1
    /\ FramesOverMean[1] \div FramesOverMean[2] < NFrames \div 3
    /\ Len(output_frames) = NFrames \div 3

\* C10: a uniform curve of 2.0 over an even number n of frames emits exactly
\* n/2 frames; the floor of n/3 does not come into play, n/2 being no less.
C10_UniformDouble ==
    ( /\ rpc = "done"
      /\ NFrames % 2 = 0
      /\ IsConstant(speed_curve, <<2, 1>>) ) =>
        /\ Len(output_frames) = NFrames \div 2
        /\ n_output = NFrames \div 2
        /\ NFrames \div 2 >= NFrames \div 3

C10_Witness ==
    /\ rpc = "done"
    /\ NFrames = ScenarioFrames
    /\ IsConstant(speed_curve, <<2, 1>>)
    /\ Len(output_frames) = 45

\* C19: for every output sample time t the frame emitted is the input frame
\* at the last position k of the cumulative time axis with cumulative[k] <= t,
\* kept within 0..n-1; every emitted frame is one of the input frames.
C19_NearestPreceding ==
    rpc = "done" =>
        /\ Len(output_frames) = Len(output_times)
        /\ \A j \in 1..Len(output_times) :
              LET t     == output_times[j]
                  atOrBefore == {k \in 0..(Len(cumulative) - 1) :
                                    RLe(cumulative[k + 1], t)}
                  last  == CHOOSE k \in atOrBefore : \A m \in atOrBefore : m <= k
                  index == IF last > NFrames - 1 THEN NFrames - 1 ELSE last
              IN  /\ atOrBefore # {}
                  /\ output_frames[j] = frames[index + 1]
                  /\ \E i \in 1..NFrames : output_frames[j] = frames[i]

C19_Witness ==
    /\ rpc = "done"
    /\ speed_curve = <<(<<3, 5>>), (<<3, 5>>)>>
    /\ output_times[2] = <<5, 6>>
    /\ output_frames = <<0, 0, 1, 1, 2>>

\* C22: for a curve of strictly positive speeds the cumulative time axis
\* starts at 0 and is strictly increasing, the output sample times never
\* decrease, and neither do the indices of the input frames emitted: the
\* output never goes back in the input.
C22_Monotone ==
    rpc = "done" =>
        /\ cumulative[1] = Zero
        /\ \A k \in 1..(Len(cumulative) - 1) :
              RLt(cumulative[k], cumulative[k + 1])
        /\ \A j \in 1..(Len(output_times) - 1) :
              RLe(output_times[j], output_times[j + 1])
        /\ \A j \in 1..(Len(output_frames) - 1) :
              output_frames[j] <= output_frames[j + 1]

C22_Witness ==
    /\ rpc = "done"
    /\ \E k \in 1..(Len(speed_curve) - 1) : speed_curve[k] # speed_curve[k + 1]
    /\ \E j \in 1..(Len(output_frames) - 1) :
          output_frames[j] = output_frames[j + 1]
    /\ \E j \in 1..(Len(output_frames) - 1) :
          output_frames[j + 1] > output_frames[j] + 1

\* C25: for n frames and a positive curve of n - 1 entries, whenever at
\* least 2 frames are emitted the first one is input frame 0 and the last
\* one is input frame n - 1.
C25_Endpoints ==
    ( /\ rpc = "done"
      /\ Len(speed_curve) = NFrames - 1
      /\ Len(output_frames) >= 2 ) =>
        /\ output_frames[1] = 0
        /\ output_frames[Len(output_frames)] = NFrames - 1

C25_Witness ==
    /\ rpc = "done"
    /\ NFrames = 3
    /\ speed_curve = <<(<<3, 2>>), (<<3, 2>>)>>
    /\ output_frames = <<0, 2>>

(***************************************************************************)
(* Properties of the three stages together.                                *)
(***************************************************************************)
\* C20: no stage writes to what it is given: compute_motion leaves the frame
\* sequence as it was, compute_speed_curve_smart the raw and the subject
\* motion series, apply_speed_curve the frame sequence and the speed curve;
\* what a stage returns is held apart from its inputs.
C20_InputsUntouched ==
    [][ /\ motion_frames' = motion_frames
        /\ raw_motion' = raw_motion
        /\ subject_motion' = subject_motion
        /\ frames' = frames
        /\ speed_curve' = speed_curve ]_vars

C20_Witness ==
    /\ rpc = "done"
    /\ NFrames = MaxFrames
    /\ frames = FrameIds(MaxFrames)
    /\ Len(output_frames) = MaxFrames \div 3
    /\ output_frames # frames

(***************************************************************************)
(* Properties of main and process_video.                                   *)
(***************************************************************************)
NFiles == Len(video_files)

\* the positions 1..n in increasing order
Positions(n) == Series([i \in 1..n |-> i], n)

\* the clip at position i decodes to at least 2 frames, its chart is saved
\* and so is its side-by-side video, if one is asked for
Completes(i) ==
    /\ video_files[i].nframes >= 2
    /\ video_files[i].chart_ok
    /\ comparison => video_files[i].side_ok

RECURSIVE CompletedUpTo(_)
\* the positions up to k of the files that complete, in increasing order
CompletedUpTo(k) ==
    IF k = 0 THEN <<>>
    ELSE IF Completes(k) THEN Append(CompletedUpTo(k - 1), k)
    ELSE CompletedUpTo(k - 1)

\* C14: every path of the list is attempted exactly once, in list order; an
\* exception raised for one file never keeps the following files from being
\* attempted; the summary holds exactly the results of the files that
\* completed, in input order.
C14_BatchIsolation ==
    /\ bpc = "loop" =>
          /\ attempted = Positions(next_file - 1)
          /\ results = CompletedUpTo(next_file - 1)
          /\ Len(results) + Len(errors) = Len(attempted)
    /\ bpc = "done" =>
          /\ attempted = Positions(NFiles)
          /\ results = CompletedUpTo(NFiles)
          /\ summary = results

C14_Witness ==
    /\ bpc = "done"
    /\ NFiles = 2
    /\ video_files[1].nframes = 0
    /\ errors = <<1>>
    /\ attempted = <<1, 2>>
    /\ summary = <<2>>

\* C15: a decoded fps that is <= 0 or > 120 is replaced by 24.0 and a decoded
\* fps in (0, 120] is kept; the resulting value is the one handed to the
\* planner and to the encoder of the normalized video.
C15_InvalidFps ==
    bpc \in {"loaded", "planned", "written", "compared"} =>
        LET d    == video_files[next_file].fps
            used == IF RLe(d, Zero) \/ RLt(<<120, 1>>, d) THEN <<24, 1>> ELSE d
        IN  /\ video_fps = used
            /\ bpc \in {"planned", "written", "compared"} => plan_fps = used
            /\ bpc \in {"written", "compared"} => write_fps = used

C15_Witness ==
    /\ bpc = "written"
    /\ video_files[next_file].fps = <<121, 1>>
    /\ plan_fps = <<24, 1>>
    /\ write_fps = <<24, 1>>

\* the positions in the log of the artifacts of kind k written for file i
Written(i, k) ==
    {j \in 1..Len(artifacts) : artifacts[j].file = i /\ artifacts[j].kind = k}

\* C21: the normalized video that process_video writes for a file is the
\* same whether or not the comparison flag is set: it is fixed by the file
\* alone; and it is written before the side-by-side video and the chart of
\* that file, so that a file whose diagnostics fail has its normalized video
\* all the same.
C21_DiagnosticsApart ==
    /\ \A j \in 1..Len(artifacts) :
          LET a == artifacts[j]
          IN  /\ a.kind = "normalized" =>
                    LET used == FixFps(video_files[a.file].fps)
                    IN  a = [file |-> a.file, kind |-> "normalized",
                             curve_fps |-> used, fps |-> used]
              /\ a.kind # "normalized" =>
                    \E m \in Written(a.file, "normalized") : m < j
              /\ a.kind = "comparison" => comparison
    /\ \A i \in 1..(next_file - 1) :
          video_files[i].nframes >= 2 => Cardinality(Written(i, "normalized")) = 1
    /\ \A e \in 1..Len(errors) :
          video_files[errors[e]].nframes >= 2 =>
              Written(errors[e], "normalized") # {}

C21_Witness ==
    /\ bpc = "done"
    /\ comparison
    /\ NFiles = 1
    /\ ~video_files[1].side_ok
    /\ errors = <<1>>
    /\ Len(artifacts) = 1
    /\ artifacts[1].kind = "normalized"

(***************************************************************************)
(* Properties of run_pipeline.                                             *)
(***************************************************************************)
Returned == ppc = <<"returned", 5>>

\* the calls of the stages in S that came to an outcome in O
CallsOf(S, O) ==
    {j \in 1..Len(calls) : calls[j].stage \in S /\ calls[j].outcome \in O}

AllPathsSet(paths) ==
    /\ paths.original # NoPath
    /\ paths.interpolated # NoPath
    /\ paths.tempo_fixed # NoPath
    /\ paths.hd_fixed # NoPath

HappyCalls ==
    <<"connect", "upload_video", "run_interpolation", "poll_task",
      "download_video", "run_tempo_normalizer", "upload_video",
      "run_hd_upscale", "poll_task", "download_video",
      "create_4way_comparison">>

\* C26: a run in which no stage is skipped and no operation fails or raises
\* connects, then uploads, starts the interpolation with target fps 60 and
\* multiplier 2, polls and downloads, then runs the tempo normalization, the
\* HD upscale (upload, start, poll, download) and the comparison, in this
\* order, and returns True.
C26_HappyPath ==
    (/\ Returned
     /\ ~skip_interpolation /\ ~skip_tempo /\ ~skip_hd
     /\ CallsOf(0..4, {"fail", "raise"}) = {})
    => /\ retval = "True"
       /\ Len(calls) = Len(HappyCalls)
       /\ \A j \in 1..Len(calls) :
             calls[j].op = HappyCalls[j] /\ calls[j].outcome = "ok"
       /\ calls[3].args = <<60, 2>>

\* a failure of connect or of a step of stage 1 ends the run with False
\* before any later stage starts
Stage1FailureIsFatal ==
    CallsOf({0, 1}, {"fail", "raise", "TypeError"}) # {} =>
        /\ retval = "False"
        /\ CallsOf({2, 3, 4}, {"ok", "fail", "raise", "TypeError"}) = {}

\* the comparison was reached with all four paths set, the run returned
\* True, and the video of the stage before stands in for that of a stage
\* that failed
CarriedOn ==
    /\ retval = "True"
    /\ compared = video_paths
    /\ AllPathsSet(compared)
    /\ CallsOf({2}, {"fail", "raise"}) # {} =>
          video_paths.tempo_fixed = video_paths.interpolated
    /\ CallsOf({3}, {"fail", "raise"}) # {} =>
          video_paths.hd_fixed = video_paths.tempo_fixed

C28_ClosedOnce ==
    /\ close_calls = IF Returned THEN 1 ELSE 0
    /\ Returned => ~connected

C28_Witness ==
    /\ Returned
    /\ CallsOf({0}, {"ok"}) # {}
    /\ CallsOf({3}, {"raise"}) # {}
    /\ close_calls = 1
    /\ ~connected

(***************************************************************************)
(* Properties of poll_task.                                                *)
(***************************************************************************)
Elapsed == now - start_time

\* C29: what poll_task returns is None or a dict that has the video URL.
C29_ResultHasVideoUrl ==
    qpc = "returned" =>
        \/ poll_result.kind = "None"
        \/ "video_url" \in poll_result.keys

\* what poll_task hands back, by what ended it
PollOutcome ==
    IF ~NoTask(response) /\ response.status = 3
    THEN poll_result = TaskResult(response)
    ELSE IF ~NoTask(response) /\ response.status = 4
    THEN poll_result = PollNone
    ELSE /\ poll_result = PollNone
         /\ Elapsed > max_wait_minutes * 60

\* an error or an empty item list is followed by a sleep of poll_interval
\* and the next round of the loop
Retried ==
    (qpc = "respond" /\ NoTask(response)) =>
        /\ qpc' = "top"
        /\ now' >= now + poll_interval
        /\ poll_result' = poll_result

\* C30: poll_task returns in the end whatever the responses are; it returns
\* the result at status 3, None at status 4 and None once more than
\* max_wait_minutes have gone by, and an error or an empty item list does
\* not end it: the request is made again after poll_interval.
C30_Terminates ==
    /\ <>(qpc = "returned")
    /\ [](qpc = "returned" => PollOutcome)
    /\ [][Retried]_vars

C30_Witness ==
    /\ qpc = "returned"
    /\ NoTask(response)
    /\ max_wait_minutes = MaxWaitMinutes
    /\ Elapsed > max_wait_minutes * 60
    /\ poll_result = PollNone
=============================================================================
